---- MODULE Spec2Model ----
(***************************************************************************)
(* Model of the CSLM expression parser (cslm/csv_parser.py) and of the     *)
(* survey analyzer (cslm/analyzer.py).                                     *)
(*                                                                         *)
(* Text is a sequence of one-character strings; a token is a slice of the  *)
(* text, hence also a sequence of one-character strings.  List positions   *)
(* are 1-based here and 0-based in the source.                             *)
(***************************************************************************)
EXTENDS Integers, Sequences, FiniteSets, TLC

VARIABLES
    mode,      \* which entry point this behaviour exercises: "parse" | "analyze"
    pc,        \* position inside the running call
    text,      \* argument expr_str of normalize_expression_syntax, as passed
    expr_str,  \* local expr_str after the rewriting of lines 68-76
    tokens,    \* local tokens
    result,    \* outcome of normalize_expression_syntax
    survey,    \* argument of analyze_survey; the Survey parse_csv_string returns
    report,    \* SurveyReport returned by analyze_survey
    rows,      \* the CSVRows parse_csv_string works on (result of _parse_csv_rows)
    warned,    \* the UserWarnings issued by parse_csv_string, in order
    call,      \* the frames of two calls running at once: locals and position
    module_state   \* the module-level bindings of csv_parser.py and analyzer.py

vars == <<mode, pc, text, expr_str, tokens, result, survey, report,
          rows, warned, call, module_state>>

\* The variables of a single parser or analyzer call.
single == <<mode, pc, text, expr_str, tokens, result, survey, report>>

\* The variables of the CSV ingestion and of the concurrent calls.
others == <<rows, warned, call, module_state>>

----------------------------------------------------------------------------
(* Bounds *)

MaxRows == 3         \* most rows of a CSV
MaxLen == 3          \* longest input text over the whole alphabet
MaxChain == 7        \* longest input text over names and the operators & |
MaxWords == 4        \* most words of an input text written in the dialect
MaxNest == 5         \* longest input text over names, parentheses, '.' and ','
MaxTrans == 3        \* most transitions of a survey whose graph is enumerated
MaxNot == 6          \* most nested NOTs of an enumerated guard
MaxPlain == 3        \* most states following the first one of an enumerated survey

----------------------------------------------------------------------------
(* Generic helpers *)

None == [tag |-> "None"]

RECURSIVE Concat(_)
Concat(ss) == IF ss = <<>> THEN <<>> ELSE Head(ss) \o Concat(Tail(ss))

Slice(s, i, j) == IF j < i THEN <<>> ELSE SubSeq(s, i, j)

Range(s) == {s[i] : i \in 1..Len(s)}

SeqsUpTo(S, n) == UNION {[1..k -> S] : k \in 0..n}

----------------------------------------------------------------------------
(* Character classes of Python's re module, restricted to ASCII *)

Spaces == {" ", "\n", "\t"}
Digits == {"0", "1", "2", "3", "4", "5", "6", "7", "8", "9"}
UpperLetters == {"A", "B", "C", "D", "E", "F", "G", "H", "I", "J", "K", "L", "M",
                 "N", "O", "P", "Q", "R", "S", "T", "U", "V", "W", "X", "Y", "Z"}
LowerLetters == {"a", "b", "c", "d", "e", "f", "g", "h", "i", "j", "k", "l", "m",
                 "n", "o", "p", "q", "r", "s", "t", "u", "v", "w", "x", "y", "z"}

UpperChar(c) ==
    CASE c = "a" -> "A" [] c = "b" -> "B" [] c = "c" -> "C" [] c = "d" -> "D"
      [] c = "e" -> "E" [] c = "f" -> "F" [] c = "g" -> "G" [] c = "h" -> "H"
      [] c = "i" -> "I" [] c = "j" -> "J" [] c = "k" -> "K" [] c = "l" -> "L"
      [] c = "m" -> "M" [] c = "n" -> "N" [] c = "o" -> "O" [] c = "p" -> "P"
      [] c = "q" -> "Q" [] c = "r" -> "R" [] c = "s" -> "S" [] c = "t" -> "T"
      [] c = "u" -> "U" [] c = "v" -> "V" [] c = "w" -> "W" [] c = "x" -> "X"
      [] c = "y" -> "Y" [] c = "z" -> "Z" [] OTHER -> c

Upper(s) == [i \in 1..Len(s) |-> UpperChar(s[i])]

IsIdentStart(c) == c \in UpperLetters \cup LowerLetters \cup {"_"}
IsIdentChar(c) == IsIdentStart(c) \/ c \in Digits

\* At(s, i): the character at position i, or "" past either end.
At(s, i) == IF i >= 1 /\ i <= Len(s) THEN s[i] ELSE ""

----------------------------------------------------------------------------
(* Expression constructors (cslm/expressions.py) *)

VariableReference(name) == [tag |-> "VariableReference", name |-> name]

Literal(value) == [tag |-> "Literal", value |-> value]

BinaryExpression(operator, left, right) ==
    [tag |-> "BinaryExpression", operator |-> operator, left |-> left, right |-> right]

UnaryExpression(operator, operand) ==
    [tag |-> "UnaryExpression", operator |-> operator, operand |-> operand]

\* csv_parser.py imports and constructs FunctionCall(name, arguments); the class
\* itself is described in the data model only.
FunctionCall(name, arguments) ==
    [tag |-> "FunctionCall", name |-> name, arguments |-> arguments]

----------------------------------------------------------------------------
(* normalize_expression_syntax, lines 64-76: the textual rewriting *)

\* str.strip(): drop leading and trailing whitespace.
RECURSIVE LStrip(_)
LStrip(s) == IF s # <<>> /\ Head(s) \in Spaces THEN LStrip(Tail(s)) ELSE s

RECURSIVE RStrip(_)
RStrip(s) ==
    IF s # <<>> /\ s[Len(s)] \in Spaces THEN RStrip(SubSeq(s, 1, Len(s) - 1)) ELSE s

Strip(s) == LStrip(RStrip(s))

\* re.sub(r'\s+', ' ', s): every maximal run of whitespace becomes one space.
RECURSIVE CollapseSpaces(_)
CollapseSpaces(s) ==
    IF s = <<>> THEN <<>>
    ELSE IF Head(s) \in Spaces
         THEN <<" ">> \o CollapseSpaces(LStrip(s))
         ELSE <<Head(s)>> \o CollapseSpaces(Tail(s))

\* re.sub(r'(?<!=)&(?!=)', ' AND ', s) and the same for '|' -> ' OR ':
\* the look-arounds read the string as it is before this substitution.
SubOperator(s, ch, word) ==
    Concat([i \in 1..Len(s) |->
              IF s[i] = ch /\ At(s, i - 1) # "=" /\ At(s, i + 1) # "="
              THEN <<" ">> \o word \o <<" ">>
              ELSE <<s[i]>>])

\* re.sub(r'!(?!=)', ' NOT ', s)
SubNot(s) ==
    Concat([i \in 1..Len(s) |->
              IF s[i] = "!" /\ At(s, i + 1) # "="
              THEN <<" ", "N", "O", "T", " ">>
              ELSE <<s[i]>>])

\* Mutant of SubEquals: a single '=' is left as it is.
SubEquals_unchanged(s) == s

\* re.sub(r'(?<![\!<>=])=(?![\!<>=])', ' == ', s)
SubEquals(s) ==
    Concat([i \in 1..Len(s) |->
              IF /\ s[i] = "="
                 /\ At(s, i - 1) \notin {"!", "<", ">", "="}
                 /\ At(s, i + 1) \notin {"!", "<", ">", "="}
              THEN <<" ", "=", "=", " ">>
              ELSE <<s[i]>>])

NormalizeText(s) ==
    SubEquals(SubNot(SubOperator(SubOperator(CollapseSpaces(Strip(s)),
                                             "&", <<"A", "N", "D">>),
                                 "|", <<"O", "R">>)))

----------------------------------------------------------------------------
(* _tokenize: re.findall over the alternation of line 94, IGNORECASE *)

\* Length of the longest run of characters satisfying the class from position i.
RECURSIVE DigitRun(_, _)
DigitRun(s, i) == IF At(s, i) \in Digits THEN 1 + DigitRun(s, i + 1) ELSE 0

RECURSIVE IdentRun(_, _)
IdentRun(s, i) == IF i <= Len(s) /\ IsIdentChar(s[i]) THEN 1 + IdentRun(s, i + 1) ELSE 0

\* -?(?:\d+(?:\.\d*)?|\.\d+) tried at position i: length matched, 0 for no match.
NumberMatch(s, i) ==
    LET sign == IF At(s, i) = "-" THEN 1 ELSE 0
        j == i + sign
        d == DigitRun(s, j)
    IN  IF d > 0
        THEN IF At(s, j + d) = "." THEN sign + d + 1 + DigitRun(s, j + d + 1)
                                  ELSE sign + d
        ELSE IF At(s, j) = "." /\ DigitRun(s, j + 1) > 0
             THEN sign + 1 + DigitRun(s, j + 1)
             ELSE 0

KeywordAt(s, i, word) ==
    i + Len(word) - 1 <= Len(s) /\ Upper(SubSeq(s, i, i + Len(word) - 1)) = word

\* The alternatives in the order of the pattern; the first that matches wins.
MatchAt(s, i) ==
    IF s[i] \in {"(", ")"} THEN 1
    ELSE IF KeywordAt(s, i, <<"A", "N", "D">>) THEN 3
    ELSE IF KeywordAt(s, i, <<"O", "R">>) THEN 2
    ELSE IF KeywordAt(s, i, <<"N", "O", "T">>) THEN 3
    ELSE IF s[i] \in {"=", "!", "<", ">"} /\ At(s, i + 1) = "=" THEN 2
    ELSE IF s[i] \in {"<", ">"} THEN 1
    ELSE IF s[i] = "." THEN 1
    ELSE IF IsIdentStart(s[i]) THEN IdentRun(s, i)
    ELSE NumberMatch(s, i)

\* findall: scan left to right, a position where nothing matches is passed over.
RECURSIVE FindAll(_, _)
FindAll(s, i) ==
    IF i > Len(s) THEN <<>>
    ELSE LET n == MatchAt(s, i)
         IN  IF n = 0 THEN FindAll(s, i + 1)
             ELSE <<SubSeq(s, i, i + n - 1)>> \o FindAll(s, i + n)

\* Outcome of a step that may raise: a value, or the message of the exception.
Raise(kind, detail) == [ok |-> FALSE, ast |-> None, pos |-> 0, err |-> <<kind, detail>>]

Return(ast, pos) == [ok |-> TRUE, ast |-> ast, pos |-> pos, err |-> <<>>]

_tokenize(s) ==
    LET toks == FindAll(s, 1)
    IN  IF toks = <<>>
        THEN [ok |-> FALSE, tokens |-> <<>>, err |-> <<"No valid tokens in expression", s>>]
        ELSE [ok |-> TRUE, tokens |-> toks, err |-> <<>>]

----------------------------------------------------------------------------
(* float(token) for the tokens the number pattern admits *)

DigitVal(c) ==
    CASE c = "0" -> 0 [] c = "1" -> 1 [] c = "2" -> 2 [] c = "3" -> 3 [] c = "4" -> 4
      [] c = "5" -> 5 [] c = "6" -> 6 [] c = "7" -> 7 [] c = "8" -> 8 [] c = "9" -> 9

RECURSIVE DigitsValue(_, _)
DigitsValue(ds, acc) ==
    IF ds = <<>> THEN acc ELSE DigitsValue(Tail(ds), 10 * acc + DigitVal(Head(ds)))

\* n / 10^k with trailing zeros of the fraction dropped.
RECURSIVE Reduce(_, _)
Reduce(n, k) == IF k > 0 /\ n % 10 = 0 THEN Reduce(n \div 10, k - 1) ELSE <<n, k>>

\* The value as a pair <<n, k>> standing for n / 10^k; -0.0 equals 0.0.
Float(tok) ==
    LET neg == Head(tok) = "-"
        body == IF neg THEN Tail(tok) ELSE tok
        int == DigitRun(body, 1)
        frac == IF At(body, int + 1) = "." THEN Slice(body, int + 2, Len(body)) ELSE <<>>
        n == DigitsValue(Slice(body, 1, int) \o frac, 0)
    IN  Reduce(IF neg THEN 0 - n ELSE n, Len(frac))

----------------------------------------------------------------------------
(* The recursive-descent parser, lines 101-218 *)

ComparisonTokens ==
    {<<"=", "=">>, <<"!", "=">>, <<"<">>, <<">">>, <<"<", "=">>, <<">", "=">>}

\* op_map of _parse_comparison_expression
op_map(tok) ==
    CASE tok = <<"=", "=">> -> "EQUALS"
      [] tok = <<"!", "=">> -> "NOT_EQUALS"
      [] tok = <<"<">> -> "LESS_THAN"
      [] tok = <<">">> -> "GREATER_THAN"
      [] tok = <<"<", "=">> -> "LESS_EQUAL"
      [] tok = <<">", "=">> -> "GREATER_EQUAL"

\* re.match(r'^-?(\d+(\.\d*)?|\.\d+)$', token)
IsNumberToken(tok) == NumberMatch(tok, 1) = Len(tok)

\* re.match(r'^[a-zA-Z_][a-zA-Z0-9_]*$', token)
IsIdentifierToken(tok) == IsIdentStart(Head(tok)) /\ IdentRun(tok, 1) = Len(tok)

\* The parsing functions call one another recursively.  Every such call is
\* written Call(f, toks, acc, pos), which applies the function named f; acc is
\* the loop-carried value of a while loop and None elsewhere.
RECURSIVE Call(_, _, _, _)

\* while pos < len(tokens) and tokens[pos].upper() == 'OR'  (lines 105-108)
OrLoop(toks, left, pos) ==
    IF pos <= Len(toks) /\ Upper(toks[pos]) = <<"O", "R">>
    THEN LET right == Call("_parse_comparison_expression", toks, None, pos + 1)
         IN  IF right.ok
             THEN Call("OrLoop", toks, BinaryExpression("OR", left, right.ast), right.pos)
             ELSE right
    ELSE Return(left, pos)

_parse_or_expression(toks, pos) ==
    LET left == Call("_parse_comparison_expression", toks, None, pos)
    IN  IF left.ok THEN Call("OrLoop", toks, left.ast, left.pos) ELSE left

\* while pos < len(tokens) and tokens[pos].upper() == 'AND'  (lines 117-120)
AndLoop(toks, left, pos) ==
    IF pos <= Len(toks) /\ Upper(toks[pos]) = <<"A", "N", "D">>
    THEN LET right == Call("_parse_or_expression", toks, None, pos + 1)
         IN  IF right.ok
             THEN Call("AndLoop", toks, BinaryExpression("AND", left, right.ast), right.pos)
             ELSE right
    ELSE Return(left, pos)

\* Mutant of _parse_and_expression: the conventional precedence, in which an
\* OR chain is the outer level and each of its operands is a whole AND chain.
RECURSIVE ConventionalAndLoop(_, _, _)
ConventionalAndLoop(toks, left, pos) ==
    IF pos <= Len(toks) /\ Upper(toks[pos]) = <<"A", "N", "D">>
    THEN LET right == Call("_parse_comparison_expression", toks, None, pos + 1)
         IN  IF right.ok
             THEN ConventionalAndLoop(toks, BinaryExpression("AND", left, right.ast),
                                      right.pos)
             ELSE right
    ELSE Return(left, pos)

ConventionalAnd(toks, pos) ==
    LET left == Call("_parse_comparison_expression", toks, None, pos)
    IN  IF left.ok THEN ConventionalAndLoop(toks, left.ast, left.pos) ELSE left

RECURSIVE ConventionalOrLoop(_, _, _)
ConventionalOrLoop(toks, left, pos) ==
    IF pos <= Len(toks) /\ Upper(toks[pos]) = <<"O", "R">>
    THEN LET right == ConventionalAnd(toks, pos + 1)
         IN  IF right.ok
             THEN ConventionalOrLoop(toks, BinaryExpression("OR", left, right.ast),
                                     right.pos)
             ELSE right
    ELSE Return(left, pos)

_parse_and_expression_conventional(toks, pos) ==
    LET left == ConventionalAnd(toks, pos)
    IN  IF left.ok THEN ConventionalOrLoop(toks, left.ast, left.pos) ELSE left

_parse_and_expression(toks, pos) ==
    LET left == Call("_parse_or_expression", toks, None, pos)
    IN  IF left.ok THEN Call("AndLoop", toks, left.ast, left.pos) ELSE left

_parse_comparison_expression(toks, pos) ==
    LET left == Call("_parse_unary_expression", toks, None, pos)
    IN  IF ~left.ok THEN left
        ELSE IF left.pos <= Len(toks) /\ toks[left.pos] \in ComparisonTokens
        THEN LET right == Call("_parse_unary_expression", toks, None, left.pos + 1)
             IN  IF right.ok
                 THEN Return(BinaryExpression(op_map(toks[left.pos]), left.ast, right.ast),
                             right.pos)
                 ELSE right
        ELSE left

\* Mutant of _parse_unary_expression: NOT takes a whole comparison as operand.
_parse_unary_expression_overComparison(toks, pos) ==
    IF pos <= Len(toks) /\ Upper(toks[pos]) = <<"N", "O", "T">>
    THEN LET expr == Call("_parse_comparison_expression", toks, None, pos + 1)
         IN  IF expr.ok THEN Return(UnaryExpression("NOT", expr.ast), expr.pos) ELSE expr
    ELSE Call("_parse_primary_expression", toks, None, pos)

_parse_unary_expression(toks, pos) ==
    IF pos <= Len(toks) /\ Upper(toks[pos]) = <<"N", "O", "T">>
    THEN LET expr == Call("_parse_primary_expression", toks, None, pos + 1)
         IN  IF expr.ok THEN Return(UnaryExpression("NOT", expr.ast), expr.pos) ELSE expr
    ELSE Call("_parse_primary_expression", toks, None, pos)

\* The 'while True' of lines 196-208; next_pos is at the start of an argument.
ArgumentLoop(toks, arguments, next_pos) ==
    LET arg == Call("_parse_or_expression", toks, None, next_pos)
    IN  IF ~arg.ok THEN arg
        ELSE IF arg.pos > Len(toks)
        THEN Raise("Missing closing parenthesis in function call", <<>>)
        ELSE IF toks[arg.pos] = <<")">>
        THEN Return(Append(arguments, arg.ast), arg.pos)
        ELSE IF toks[arg.pos] = <<",">>
        THEN Call("ArgumentLoop", toks, Append(arguments, arg.ast), arg.pos + 1)
        ELSE Raise("Expected ',' or ')' in function call, got", toks[arg.pos])

\* Mutant of ParenthesizedExpression: the end of the token list is taken for
\* the closing parenthesis.
ParenthesizedExpression_closedByEnd(toks, pos) ==
    LET expr == Call("_parse_and_expression", toks, None, pos + 1)
    IN  IF ~expr.ok THEN expr
        ELSE IF expr.pos <= Len(toks) /\ toks[expr.pos] # <<")">>
        THEN Raise("Missing closing parenthesis", <<>>)
        ELSE Return(expr.ast, expr.pos + 1)

\* Lines 166-172: the token at pos is '('.
ParenthesizedExpression(toks, pos) ==
    LET expr == Call("_parse_and_expression", toks, None, pos + 1)
    IN  IF ~expr.ok THEN expr
        ELSE IF expr.pos > Len(toks) \/ toks[expr.pos] # <<")">>
        THEN Raise("Missing closing parenthesis", <<>>)
        ELSE Return(expr.ast, expr.pos + 1)

\* Lines 186-213: the token at pos is an identifier followed by '.' and '('.
FunctionCallExpression(toks, pos) ==
    LET args == IF pos + 3 <= Len(toks) /\ toks[pos + 3] # <<")">>
                THEN Call("ArgumentLoop", toks, <<>>, pos + 3)
                ELSE Return(<<>>, pos + 3)
    IN  IF ~args.ok THEN args
        ELSE IF args.pos > Len(toks) \/ toks[args.pos] # <<")">>
        THEN Raise("Missing closing parenthesis in function call", <<>>)
        ELSE Return(FunctionCall(toks[pos], args.ast), args.pos + 1)

_parse_primary_expression(toks, pos) ==
    IF pos > Len(toks) THEN Raise("Unexpected end of expression", <<>>)
    ELSE IF toks[pos] = <<"(">> THEN ParenthesizedExpression(toks, pos)
    ELSE IF IsNumberToken(toks[pos]) THEN Return(Literal(Float(toks[pos])), pos + 1)
    ELSE IF IsIdentifierToken(toks[pos])
    THEN IF /\ pos + 1 <= Len(toks) /\ toks[pos + 1] = <<".">>
            /\ pos + 2 <= Len(toks) /\ toks[pos + 2] = <<"(">>
         THEN FunctionCallExpression(toks, pos)
         ELSE Return(VariableReference(toks[pos]), pos + 1)
    ELSE Raise("Unexpected token", toks[pos])

Call(f, toks, acc, pos) ==
    CASE f = "_parse_and_expression" -> _parse_and_expression(toks, pos)
      [] f = "_parse_or_expression" -> _parse_or_expression(toks, pos)
      [] f = "_parse_comparison_expression" -> _parse_comparison_expression(toks, pos)
      [] f = "_parse_unary_expression" -> _parse_unary_expression(toks, pos)
      [] f = "_parse_primary_expression" -> _parse_primary_expression(toks, pos)
      [] f = "OrLoop" -> OrLoop(toks, acc, pos)
      [] f = "AndLoop" -> AndLoop(toks, acc, pos)
      [] f = "ArgumentLoop" -> ArgumentLoop(toks, acc, pos)

----------------------------------------------------------------------------
(* normalize_expression_syntax, lines 40-88 *)

Pending == [kind |-> "pending", ast |-> None, message |-> <<>>]

ReturnNone == [kind |-> "None", ast |-> None, message |-> <<>>]

ReturnExpression(ast) == [kind |-> "Expression", ast |-> ast, message |-> <<>>]

\* raise CSVParseError(f"Failed to parse expression '{expr_str}': {str(e)}")
\* where expr_str is the local variable at the time of the raise.
CSVParseError(shown, cause) ==
    [kind |-> "CSVParseError", ast |-> None, message |-> <<shown, cause>>]

\* Mutant of ParseTokens: the check of line 83 for remaining tokens is missing.
ParseTokens_ignoreRemaining(e, toks) ==
    LET r == _parse_and_expression(toks, 1)
    IN  IF ~r.ok THEN CSVParseError(e, r.err) ELSE ReturnExpression(r.ast)

\* Lines 81-88 for a token list obtained from the rewritten text e.
ParseTokens(e, toks) ==
    LET r == _parse_and_expression(toks, 1)
    IN  IF ~r.ok THEN CSVParseError(e, r.err)
        ELSE IF r.pos <= Len(toks)
        THEN CSVParseError(e, <<"Unexpected tokens after parsing",
                                SubSeq(toks, r.pos, Len(toks))>>)
        ELSE ReturnExpression(r.ast)

\* Mutant of IsBlank: only the empty text is taken for blank.
IsBlank_emptyOnly(s) == s = <<>>

\* Line 64: not expr_str or expr_str.strip() == ""
IsBlank(s) == s = <<>> \/ Strip(s) = <<>>

normalize_expression_syntax(s) ==
    IF IsBlank(s) THEN ReturnNone
    ELSE LET e == NormalizeText(s)
             t == _tokenize(e)
         IN  IF ~t.ok THEN CSVParseError(e, t.err) ELSE ParseTokens(e, t.tokens)

----------------------------------------------------------------------------
(* Inputs of the parser *)

Alphabet == {"A", "1", "(", ")", "&", "|", "!", "=", "<", ".", ",", "-", " ", "$"}

ChainAlphabet == {"A", "&", "|"}

NestAlphabet == {"A", "(", ")", ".", ","}

\* Expression texts of the test-suite (tests/test_csv_parser.py).
TestTexts ==
    { <<"A", " ", "&", " ", "B", " ", "|", " ", "C", " ", "&", " ", "D">>,
      <<"(", "X", " ", "=", "=", " ", "1">>,
      <<"(", "!", "i", "s", ".", "(", "a", "d", "d", "2", ")", ")">>,
      <<"(", "X", " ", "I", "N", "V", "A", "L", "I", "D", " ", "Y", ")">>,
      <<"(", "(", "A", "=", "=", "1", ")", "|", "B", "=", "=", "2", ")", ")">>,
      <<"(", "U", " ", "!", "=", " ", "\"", "\"", ")">>,
      <<"(", "M", " ", "=", " ", "0", ")">>,
      <<"(", "m", " ", ">", "0">>,
      <<"(", "C", " ", "&", " ", "!", "i", "s", ".", "(", "P", ")">> }

\* Function calls with no, one and two arguments, and with an argument that is
\* an OR and one that is an AND.
CallTexts ==
    { <<"f", ".", "(", ")">>,
      <<"f", ".", "(", "x", ")">>,
      <<"f", ".", "(", "a", ",", " ", "b", ")">>,
      <<"f", ".", "(", "a", " ", "|", " ", "b", ")">>,
      <<"f", ".", "(", "a", " ", "&", " ", "b", ")">> }

\* Texts in the dialect: up to MaxWords names, numbers and operators & | ! =,
\* with the same run of whitespace between every two of them.
DialectWords == {<<"A">>, <<"1">>, <<"&">>, <<"|">>, <<"!">>, <<"=">>}

WhitespaceRuns == {<<" ">>, <<"\n">>, <<" ", "\t", " ">>}

RECURSIVE Join(_, _)
Join(words, sep) ==
    IF words = <<>> THEN <<>>
    ELSE IF Len(words) = 1 THEN words[1]
    ELSE words[1] \o sep \o Join(Tail(words), sep)

DialectTexts ==
    {Join(ws, sep) : ws \in SeqsUpTo(DialectWords, MaxWords), sep \in WhitespaceRuns}

\* NOT before a comparison, with and without parentheses.
NotTexts ==
    { <<"N", "O", "T", " ", "A", " ", "=", "=", " ", "1">>,
      <<"N", "O", "T", " ", "(", "A", " ", "=", "=", " ", "1", ")">>,
      <<"A", " ", "=", "=", " ", "N", "O", "T", " ", "B">> }

\* Operator keywords where an operand is expected, and identifiers that begin
\* with the letters of a keyword.
KeywordTexts ==
    { <<"A", " ", "=", "=", " ", "A", "N", "D">>,
      <<"A", " ", "&", " ", "|">>,
      <<"O", "R", "i", "s", "k", "a">>,
      <<"N", "o", "t", "e", "s">>,
      <<"a", "n", "d", "r", "o", "i", "d">>,
      <<"o", "r", "_", "1">> }

ParseInputs ==
    SeqsUpTo(Alphabet, MaxLen) \cup SeqsUpTo(ChainAlphabet, MaxChain)
        \cup SeqsUpTo(NestAlphabet, MaxNest) \cup TestTexts \cup CallTexts
        \cup DialectTexts \cup NotTexts \cup KeywordTexts

----------------------------------------------------------------------------
(* Survey model objects (cslm/model.py); names and ids are character sequences *)

State(id, entry_guard, validation, version) ==
    [id |-> id, entry_guard |-> entry_guard, validation |-> validation, version |-> version]

Transition(from_state, to_state, guard) ==
    [from_state |-> from_state, to_state |-> to_state, guard |-> guard]

\* The surveys analysed here carry no blocks and no metadata: analyze_survey
\* only counts the blocks and never looks at the metadata.
Survey(variables, states, transitions) ==
    [variables |-> variables, states |-> states, transitions |-> transitions,
     blocks |-> <<>>, metadata |-> <<>>]

START == <<"S", "T", "A", "R", "T">>

----------------------------------------------------------------------------
(* analyzer.py: expression metrics, lines 25-66 *)

ExpressionMetrics(depth, node_count, variable_references) ==
    [depth |-> depth, node_count |-> node_count,
     variable_references |-> variable_references]

Max(a, b) == IF a >= b THEN a ELSE b

RECURSIVE MaxOf(_)
MaxOf(seq) == IF Len(seq) = 1 THEN seq[1] ELSE Max(Head(seq), MaxOf(Tail(seq)))

RECURSIVE Sum(_)
Sum(seq) == IF seq = <<>> THEN 0 ELSE Head(seq) + Sum(Tail(seq))

RECURSIVE Gcd(_, _)
Gcd(a, b) == IF b = 0 THEN a ELSE Gcd(b, a % b)

\* The quotient n / d of a true division, kept exact as a fraction in lowest terms.
Quotient(n, d) == LET g == Gcd(n, d) IN <<n \div g, d \div g>>

\* Only the four classes the module imports are tested for; any other node
\* keeps the initial metrics (node_count 1, depth 0, no references).
RECURSIVE _analyze_expression(_)
_analyze_expression(expr) ==
    IF expr = None THEN ExpressionMetrics(0, 0, {})
    ELSE IF expr.tag = "BinaryExpression"
    THEN LET left == _analyze_expression(expr.left)
             right == _analyze_expression(expr.right)
         IN  ExpressionMetrics(1 + Max(left.depth, right.depth),
                               1 + left.node_count + right.node_count,
                               left.variable_references \cup right.variable_references)
    ELSE IF expr.tag = "UnaryExpression"
    THEN LET operand == _analyze_expression(expr.operand)
         IN  ExpressionMetrics(1 + operand.depth, 1 + operand.node_count,
                               operand.variable_references)
    ELSE IF expr.tag = "VariableReference"
    THEN ExpressionMetrics(0, 1, {expr.name})
    ELSE ExpressionMetrics(0, 1, {})

----------------------------------------------------------------------------
(* analyzer.py: analyze_survey, lines 136-351 *)

\* The guard and validation expressions in the order the loops visit them:
\* per state the entry_guard then the validation, then the transition guards.
RECURSIVE StateExpressions(_)
StateExpressions(states) ==
    IF states = <<>> THEN <<>>
    ELSE (IF Head(states).entry_guard # None THEN <<Head(states).entry_guard>> ELSE <<>>)
         \o (IF Head(states).validation # None THEN <<Head(states).validation>> ELSE <<>>)
         \o StateExpressions(Tail(states))

RECURSIVE TransitionGuards(_)
TransitionGuards(transitions) ==
    IF transitions = <<>> THEN <<>>
    ELSE (IF Head(transitions).guard # None THEN <<Head(transitions).guard>> ELSE <<>>)
         \o TransitionGuards(Tail(transitions))

AllExpressions(sv) == StateExpressions(sv.states) \o TransitionGuards(sv.transitions)

\* Lines 164-181
all_referenced_vars(sv) ==
    UNION {_analyze_expression(AllExpressions(sv)[i]).variable_references :
             i \in 1..Len(AllExpressions(sv))}

declared_vars(sv) == Range(sv.variables)

\* Lines 189-208
variable_usage(sv) ==
    [var \in all_referenced_vars(sv) |->
        Cardinality({i \in 1..Len(AllExpressions(sv)) :
                       var \in _analyze_expression(AllExpressions(sv)[i]).variable_references})]

\* Lines 214-231
all_depths(sv) ==
    [i \in 1..Len(AllExpressions(sv)) |-> _analyze_expression(AllExpressions(sv)[i]).depth]

total_nodes(sv) ==
    Sum([i \in 1..Len(AllExpressions(sv)) |->
           _analyze_expression(AllExpressions(sv)[i]).node_count])

\* Lines 242-248
CountStates(sv, field) ==
    Cardinality({i \in 1..Len(sv.states) : sv.states[i][field] # None})

\* Lines 258-263: outgoing[node], the to_state of each transition leaving node,
\* in the order of survey.transitions; outgoing.get(node, []) for other nodes.
RECURSIVE outgoing(_, _)
outgoing(transitions, node) ==
    IF transitions = <<>> THEN <<>>
    ELSE (IF Head(transitions).from_state = node THEN <<Head(transitions).to_state>>
          ELSE <<>>) \o outgoing(Tail(transitions), node)

\* outgoing.keys(): the from_states in the order each first occurs.
RECURSIVE outgoing_keys(_, _)
outgoing_keys(transitions, seen) ==
    IF transitions = <<>> THEN <<>>
    ELSE IF Head(transitions).from_state \in seen
         THEN outgoing_keys(Tail(transitions), seen)
         ELSE <<Head(transitions).from_state>>
              \o outgoing_keys(Tail(transitions), seen \cup {Head(transitions).from_state})

\* Mutant of entry_points: a successor of START that another node also leads
\* to is left out.
entry_points_noOtherIncoming(sv) ==
    SelectSeq(outgoing(sv.transitions, START),
              LAMBDA n : \A i \in 1..Len(sv.transitions) :
                            sv.transitions[i].to_state = n
                                => sv.transitions[i].from_state = START)

\* Line 266: outgoing.get("START", [])
entry_points(sv) == outgoing(sv.transitions, START)

\* Mutant of exit_points: a declared state named START is never listed.
exit_points_exceptStart(states, transitions) ==
    LET ids == [i \in 1..Len(states) |-> states[i].id]
    IN  SelectSeq(ids, LAMBDA id : id # START /\ outgoing(transitions, id) = <<>>)

\* Lines 268-271
RECURSIVE exit_points(_, _)
exit_points(states, transitions) ==
    IF states = <<>> THEN <<>>
    ELSE (IF outgoing(transitions, Head(states).id) = <<>> THEN <<Head(states).id>>
          ELSE <<>>) \o exit_points(Tail(states), transitions)

\* Mutant of PushNeighbors: the loop stops after the first neighbor.
PushNeighbors_firstOnly(stack, neighbors, reachable) ==
    IF neighbors = <<>> THEN stack
    ELSE stack \o SelectSeq(<<Head(neighbors)>>, LAMBDA n : n \notin reachable)

\* for neighbor in outgoing.get(node, []): if neighbor not in reachable: push
PushNeighbors(stack, neighbors, reachable) ==
    stack \o SelectSeq(neighbors, LAMBDA n : n \notin reachable)

\* Lines 274-283: the while loop over the stack, popping from its end.
RECURSIVE Reachability(_, _, _)
Reachability(transitions, stack, reachable) ==
    IF stack = <<>> THEN reachable
    ELSE LET node == stack[Len(stack)]
             rest == SubSeq(stack, 1, Len(stack) - 1)
         IN  IF node \in reachable THEN Reachability(transitions, rest, reachable)
             ELSE Reachability(transitions,
                               PushNeighbors(rest, outgoing(transitions, node),
                                             reachable \cup {node}),
                               reachable \cup {node})

reachable(sv) == Reachability(sv.transitions, <<START>>, {})

\* Lines 286-288
unreachable_states(sv) ==
    {sv.states[i].id : i \in {j \in 1..Len(sv.states) : sv.states[j].id \notin reachable(sv)}}

\* path.index(neighbor)
RECURSIVE Index(_, _)
Index(seq, x) == IF Head(seq) = x THEN 1 ELSE 1 + Index(Tail(seq), x)

\* Mutant of CycleFrom: the path is not cut at the node the cycle starts from.
CycleFrom_wholePath(path, neighbor) == path \o <<neighbor>>

\* Lines 83-84: the path from the first occurrence of neighbor, closed by neighbor.
CycleFrom(path, neighbor) ==
    SubSeq(path, Index(path, neighbor), Len(path)) \o <<neighbor>>

\* Lines 69-87.  visited and rec_stack are sets shared by reference with the
\* callers, path is copied at each call: the outcome carries the cycle (None
\* when there is none) and the two sets as the call leaves them.
\* 'if cycle:' holds of a list that is neither None nor empty.
Truthy(cycle) == cycle # None /\ cycle # <<>>

Dfs(cycle, visited, rec_stack) ==
    [cycle |-> cycle, visited |-> visited, rec_stack |-> rec_stack]

RECURSIVE _find_cycles_dfs(_, _, _, _, _)
RECURSIVE NeighborLoop(_, _, _, _, _, _)

\* The for loop of lines 76-84 from the i-th neighbor on; path already ends in start.
NeighborLoop(transitions, start, i, visited, rec_stack, path) ==
    LET neighbors == outgoing(transitions, start)
    IN  IF i > Len(neighbors)
        THEN Dfs(None, visited, rec_stack \ {start})
        ELSE IF neighbors[i] \notin visited
        THEN LET sub == _find_cycles_dfs(transitions, neighbors[i], visited, rec_stack, path)
             IN  IF Truthy(sub.cycle) THEN sub
                 ELSE NeighborLoop(transitions, start, i + 1, sub.visited, sub.rec_stack, path)
        ELSE IF neighbors[i] \in rec_stack
        THEN Dfs(CycleFrom(path, neighbors[i]), visited, rec_stack)
        ELSE NeighborLoop(transitions, start, i + 1, visited, rec_stack, path)

_find_cycles_dfs(transitions, start, visited, rec_stack, path) ==
    NeighborLoop(transitions, start, 1, visited \cup {start}, rec_stack \cup {start},
                 Append(path, start))

\* Mutant of CycleDetection: only the first key is searched from.
CycleDetection_firstKey(transitions, keys, visited) ==
    IF keys = <<>> THEN None
    ELSE LET found == _find_cycles_dfs(transitions, Head(keys), visited, {}, <<>>)
         IN  IF Truthy(found.cycle) THEN found.cycle ELSE None

\* Lines 291-298: one search from every key not visited by an earlier search,
\* stopping at the first cycle.
RECURSIVE CycleDetection(_, _, _)
CycleDetection(transitions, keys, visited) ==
    IF keys = <<>> THEN None
    ELSE IF Head(keys) \in visited THEN CycleDetection(transitions, Tail(keys), visited)
    ELSE LET found == _find_cycles_dfs(transitions, Head(keys), visited, {}, <<>>)
         IN  IF Truthy(found.cycle) THEN found.cycle
             ELSE CycleDetection(transitions, Tail(keys), found.visited)

cycle_example(sv) == CycleDetection(sv.transitions, outgoing_keys(sv.transitions, {}), {})

\* Lines 304-310: transitions_per_state.values()
transitions_per_state(sv) ==
    LET keys == outgoing_keys(sv.transitions, {})
    IN  [i \in 1..Len(keys) |-> Len(outgoing(sv.transitions, keys[i]))]

\* SurveyReport.add_warning
add_warning(warnings, msg) ==
    IF msg \in Range(warnings) THEN warnings ELSE Append(warnings, msg)

\* One rule of lines 316-349: the message is added when the condition holds.
\* A message is its fixed wording with the values formatted into it.
Warn(warnings, condition, wording, values) ==
    IF condition THEN add_warning(warnings, <<wording, values>>) ELSE warnings

COVERAGE_THRESHOLD == 50
DEPTH_THRESHOLD == 5

\* a / b < n for a fraction <<a, b>> with b > 0
LessThan(fraction, n) == fraction[1] < n * fraction[2]

\* Mutant of LowCoverage: the comparison is <= instead of <.
LowCoverage_orEqual(r) ==
    r.validation_coverage_percent[1] <= COVERAGE_THRESHOLD * r.validation_coverage_percent[2]

\* Mutant of HighComplexity: the comparison is >= instead of >.
HighComplexity_orEqual(r) == r.max_expression_depth >= DEPTH_THRESHOLD

\* Line 336
LowCoverage(r) == LessThan(r.validation_coverage_percent, COVERAGE_THRESHOLD)

\* Line 346
HighComplexity(r) == r.max_expression_depth > DEPTH_THRESHOLD

\* Lines 316-349 applied to the report r computed so far.
Warnings(r) ==
    LET w1 == Warn(<<>>, r.undefined_variables # {},
                   "Undefined variable references", r.undefined_variables)
        w2 == Warn(w1, r.unused_variables # {}, "Unused variables", r.unused_variables)
        w3 == Warn(w2, r.unreachable_states # {}, "Unreachable states", r.unreachable_states)
        w4 == Warn(w3, r.has_cycles, "Cycle detected", r.cycle_example)
        w5 == Warn(w4, LowCoverage(r),
                   "Low validation coverage", r.validation_coverage_percent)
        w6 == Warn(w5, r.states_with_version = 0 /\ r.total_states > 0,
                   "Missing version metadata", r.total_states - r.states_with_version)
    IN  Warn(w6, HighComplexity(r),
             "High expression complexity", r.max_expression_depth)

\* The report before the warning rules run (lines 148-310).
Measure(sv) ==
    [kind |-> "SurveyReport",
     total_states |-> Len(sv.states),
     total_transitions |-> Len(sv.transitions),
     total_variables |-> Len(sv.variables),
     total_blocks |-> Len(sv.blocks),
     variable_usage |-> variable_usage(sv),
     undefined_variables |-> all_referenced_vars(sv) \ declared_vars(sv),
     unused_variables |-> declared_vars(sv) \ all_referenced_vars(sv),
     entry_points |-> entry_points(sv),
     exit_points |-> exit_points(sv.states, sv.transitions),
     unreachable_states |-> unreachable_states(sv),
     has_cycles |-> cycle_example(sv) # None,
     cycle_example |-> cycle_example(sv),
     max_expression_depth |-> IF all_depths(sv) # <<>> THEN MaxOf(all_depths(sv)) ELSE 0,
     avg_expression_depth |-> IF all_depths(sv) # <<>>
                              THEN Quotient(Sum(all_depths(sv)), Len(all_depths(sv)))
                              ELSE <<0, 1>>,
     total_expression_nodes |-> total_nodes(sv),
     states_with_validation |-> CountStates(sv, "validation"),
     states_with_entry_guard |-> CountStates(sv, "entry_guard"),
     states_with_version |-> CountStates(sv, "version"),
     validation_coverage_percent |->
         IF Len(sv.states) > 0
         THEN Quotient(CountStates(sv, "validation") * 100, Len(sv.states))
         ELSE <<0, 1>>,
     max_transitions_per_state |->
         IF transitions_per_state(sv) # <<>> THEN MaxOf(transitions_per_state(sv)) ELSE 0,
     avg_transitions_per_state |->
         IF transitions_per_state(sv) # <<>>
         THEN Quotient(Sum(transitions_per_state(sv)), Len(transitions_per_state(sv)))
         ELSE <<0, 1>>]

\* Mutant of analyze_survey: the percentage is computed without the test of
\* line 250, so that a survey without states ends in ZeroDivisionError.
analyze_survey_unguardedCoverage(sv) ==
    IF Len(sv.states) = 0 THEN [kind |-> "ZeroDivisionError"]
    ELSE LET r == Measure(sv)
         IN  [f \in DOMAIN r \cup {"warnings"} |->
                 IF f = "warnings" THEN Warnings(r) ELSE r[f]]

analyze_survey(sv) ==
    LET r == Measure(sv)
    IN  [f \in DOMAIN r \cup {"warnings"} |-> IF f = "warnings" THEN Warnings(r) ELSE r[f]]

\* Mutant of survey_after: the reachability search uses survey.transitions as
\* its work list and pops it empty.
survey_after_consumed(sv) ==
    [sv EXCEPT !.transitions = <<>>]

\* The survey argument as the call leaves it.  Lines 148-310 take len() of
\* survey.states, .transitions, .variables and .blocks and iterate over the
\* first three; the members and their expressions are only read (the
\* expression classes are frozen); every list, set and dict the function
\* appends to, pops from or assigns into is one it created itself.
survey_after(sv) ==
    [variables |-> sv.variables, states |-> sv.states,
     transitions |-> sv.transitions, blocks |-> sv.blocks,
     metadata |-> sv.metadata]

NoSurvey == Survey(<<>>, <<>>, <<>>)

NoReport == [kind |-> "pending"]

----------------------------------------------------------------------------
(* csv_parser.py: CSV ingestion, lines 221-421 *)

\* Lines 221-230; question, multi and max_choices are copied or ignored by
\* parse_csv_string and left out.  The text fields arrive stripped (249-252).
CSVRow(variable, route, valid_response, apply_from) ==
    [variable |-> variable, route |-> route, valid_response |-> valid_response,
     apply_from |-> apply_from]

\* The characters of identifiers in code point order, the order of str
\* comparison.
CodeOrder ==
    <<"0", "1", "2", "3", "4", "5", "6", "7", "8", "9",
      "A", "B", "C", "D", "E", "F", "G", "H", "I", "J", "K", "L", "M",
      "N", "O", "P", "Q", "R", "S", "T", "U", "V", "W", "X", "Y", "Z", "_",
      "a", "b", "c", "d", "e", "f", "g", "h", "i", "j", "k", "l", "m",
      "n", "o", "p", "q", "r", "s", "t", "u", "v", "w", "x", "y", "z">>

CodePoint(c) == CHOOSE i \in 1..Len(CodeOrder) : CodeOrder[i] = c

\* a < b for two str
RECURSIVE StrLess(_, _)
StrLess(a, b) ==
    IF b = <<>> THEN FALSE
    ELSE IF a = <<>> THEN TRUE
    ELSE IF Head(a) = Head(b) THEN StrLess(Tail(a), Tail(b))
    ELSE CodePoint(Head(a)) < CodePoint(Head(b))

\* sorted(names) for a set of str
RECURSIVE sorted(_)
sorted(names) ==
    IF names = {} THEN <<>>
    ELSE LET least == CHOOSE n \in names : \A m \in names \ {n} : StrLess(n, m)
         IN  <<least>> \o sorted(names \ {least})

\* The outcome of _extract_variables_from_expression: a set of names, or the
\* AttributeError of line 274.
NameSet(names) == [kind |-> "set", names |-> names]

AttributeError == [kind |-> "AttributeError", names |-> {}]

\* Lines 264-276.  Line 274 reads expr.expr; UnaryExpression has the fields
\* operator and operand only (expressions.py:158-171), so the read raises
\* AttributeError.  Literals and function calls fall through to line 276.
RECURSIVE _extract_variables_from_expression(_)
_extract_variables_from_expression(expr) ==
    CASE expr = None -> NameSet({})
      [] expr.tag = "VariableReference" -> NameSet({expr.name})
      [] expr.tag = "BinaryExpression" ->
             LET left == _extract_variables_from_expression(expr.left)
                 right == _extract_variables_from_expression(expr.right)
             IN  IF left.kind # "set" THEN left
                 ELSE IF right.kind # "set" THEN right
                 ELSE NameSet(left.names \cup right.names)
      [] expr.tag = "UnaryExpression" -> AttributeError
      [] OTHER -> NameSet({})

\* Lines 288-293 and 296-301: the names one text field adds to all_vars; the
\* bare except drops a failure to parse and the AttributeError alike.
NamesOfField(field) ==
    IF field = <<>> THEN {}
    ELSE LET expr == normalize_expression_syntax(field)
         IN  IF expr.kind = "CSVParseError" THEN {}
             ELSE LET found == _extract_variables_from_expression(expr.ast)
                  IN  IF found.kind = "set" THEN found.names ELSE {}

\* Lines 279-303
_extract_all_variables(rs) ==
    UNION {{rs[i].variable} \cup NamesOfField(rs[i].route)
              \cup NamesOfField(rs[i].valid_response) : i \in 1..Len(rs)}

\* Every order in which a set can be iterated.
Orders(S) == {o \in [1..Cardinality(S) -> S] : Range(o) = S}

\* Mutant of RowTransitions: the test of line 329 that var_ref names a row is
\* missing.
RowTransitions_anyName(rs, row, guard_expr, order) ==
    LET kept == SelectSeq(order, LAMBDA v : v # row.variable)
    IN  [i \in 1..Len(kept) |-> Transition(kept[i], row.variable, guard_expr)]

\* Lines 328-335 for one row, guard_vars being iterated in the given order.
RowTransitions(rs, row, guard_expr, order) ==
    LET var_to_row == {rs[i].variable : i \in 1..Len(rs)}
        kept == SelectSeq(order, LAMBDA v : v \in var_to_row /\ v # row.variable)
    IN  [i \in 1..Len(kept) |-> Transition(kept[i], row.variable, guard_expr)]

\* Lines 316-335 for one row: the lists of transitions the row can add, one
\* for each order of iteration of the set guard_vars; the empty list alone
\* when the route is empty or line 322 or 323 raises.
RowInferences(rs, row) ==
    IF row.route = <<>> THEN {<<>>}
    ELSE LET expr == normalize_expression_syntax(row.route)
         IN  IF expr.kind = "CSVParseError" THEN {<<>>}
             ELSE LET found == _extract_variables_from_expression(expr.ast)
                  IN  IF found.kind # "set" THEN {<<>>}
                      ELSE {RowTransitions(rs, row, expr.ast, order) :
                              order \in Orders(found.names)}

\* Lines 306-337: the lists _infer_transitions can return for these rows, from
\* the i-th row on.
RECURSIVE InferFrom(_, _)
InferFrom(rs, i) ==
    IF i > Len(rs) THEN {<<>>}
    ELSE {first \o rest : first \in RowInferences(rs, rs[i]),
                          rest \in InferFrom(rs, i + 1)}

_infer_transitions(rs) == InferFrom(rs, 1)

\* Lines 376-381 and 383-388: the expression of a text field of a row, None
\* when the field is empty or fails to parse.
FieldExpression(field) ==
    IF field = <<>> THEN None
    ELSE LET expr == normalize_expression_syntax(field)
         IN  IF expr.kind = "CSVParseError" THEN None ELSE expr.ast

\* Mutant of FieldWarnings: a failure to parse is passed over in silence.
FieldWarnings_silent(wording, row, field) == <<>>

\* Lines 380-381 and 387-388: warnings.warn(f"{wording} {variable}: {e}", UserWarning)
FieldWarnings(wording, row, field) ==
    IF field = <<>> THEN <<>>
    ELSE LET expr == normalize_expression_syntax(field)
         IN  IF expr.kind = "CSVParseError"
             THEN <<[category |-> "UserWarning",
                     message |-> <<wording, row.variable, expr.message>>]>>
             ELSE <<>>

\* An Optional[int] that is not None.
SomeInt(n) == [tag |-> "int", value |-> n]

\* Lines 390-392: a version only for a truthy apply_from.
RowVersion(row) ==
    IF row.apply_from # None /\ row.apply_from # SomeInt(0)
    THEN [apply_from |-> row.apply_from.value, apply_to |-> None]
    ELSE None

\* Lines 375-401 for one row
RowState(row) ==
    State(row.variable, FieldExpression(row.route),
          FieldExpression(row.valid_response), RowVersion(row))

RowWarnings(row) ==
    FieldWarnings("Invalid route for", row, row.route)
      \o FieldWarnings("Invalid validation for", row, row.valid_response)

\* The outcome of parse_csv_string: the survey with the warnings issued on the
\* way, or the CSVParseError raised.
ReturnSurvey(sv, warnings) ==
    [kind |-> "Survey", survey |-> sv, warnings |-> warnings, message |-> <<>>]

RaiseDuplicates(names) ==
    [kind |-> "CSVParseError", survey |-> NoSurvey, warnings |-> <<>>,
     message |-> <<"Duplicate variable names", names>>]

\* Lines 354-421 after _parse_csv_rows, inferred being the list that
\* _infer_transitions returned.
parse_csv_string(rs, inferred) ==
    LET var_names == [i \in 1..Len(rs) |-> rs[i].variable]
    IN  IF rs = <<>> THEN ReturnSurvey(NoSurvey, <<>>)
        ELSE IF Len(var_names) # Cardinality(Range(var_names))
        THEN RaiseDuplicates({n \in Range(var_names) :
                 Cardinality({i \in 1..Len(rs) : var_names[i] = n}) > 1})
        ELSE ReturnSurvey(
                 Survey(sorted(_extract_all_variables(rs)),
                        [i \in 1..Len(rs) |-> RowState(rs[i])],
                        inferred),
                 Concat([i \in 1..Len(rs) |-> RowWarnings(rs[i])]))

\* csv_parser.py and analyzer.py bind no module-level name to a mutable object.
NoBindings == <<>>

----------------------------------------------------------------------------
(* The parser as a state machine *)

InitParser ==
    /\ mode = "parse"
    /\ pc = "start"
    /\ text \in ParseInputs
    /\ expr_str = <<>>
    /\ tokens = <<>>
    /\ result = Pending
    /\ survey = NoSurvey
    /\ report = NoReport
    /\ rows = <<>> /\ warned = <<>> /\ call = <<>> /\ module_state = NoBindings

\* Lines 64-65: empty or whitespace-only text gives None.
ReturnNoneForBlank ==
    /\ mode = "parse" /\ pc = "start"
    /\ IsBlank(text)
    /\ result' = ReturnNone
    /\ pc' = "done"
    /\ UNCHANGED others
    /\ UNCHANGED <<mode, text, expr_str, tokens, survey, report>>

\* Lines 68-76: strip, collapse whitespace, rewrite & | ! =.
Normalize ==
    /\ mode = "parse" /\ pc = "start"
    /\ ~IsBlank(text)
    /\ expr_str' = NormalizeText(text)
    /\ pc' = "tokenize"
    /\ UNCHANGED others
    /\ UNCHANGED <<mode, text, tokens, result, survey, report>>

\* Line 80, and lines 87-88 when _tokenize raises.
Tokenize ==
    /\ mode = "parse" /\ pc = "tokenize"
    /\ LET t == _tokenize(expr_str)
       IN  IF t.ok
           THEN /\ tokens' = t.tokens
                /\ pc' = "parse"
                /\ UNCHANGED result
           ELSE /\ result' = CSVParseError(expr_str, t.err)
                /\ pc' = "done"
                /\ UNCHANGED tokens
    /\ UNCHANGED others
    /\ UNCHANGED <<mode, text, expr_str, survey, report>>

\* Lines 81-88.
Parse ==
    /\ mode = "parse" /\ pc = "parse"
    /\ result' = ParseTokens(expr_str, tokens)
    /\ pc' = "done"
    /\ UNCHANGED others
    /\ UNCHANGED <<mode, text, expr_str, tokens, survey, report>>

NextParser == ReturnNoneForBlank \/ Normalize \/ Tokenize \/ Parse

SpecParser == InitParser /\ [][NextParser]_vars

----------------------------------------------------------------------------
(* Inputs of the analyzer *)

S1 == <<"S", "1">>
S2 == <<"S", "2">>
S3 == <<"S", "3">>
X == <<"X">>
Y == <<"Y">>
Z == <<"Z">>

One == Literal(<<1, 0>>)

Version == [apply_from |-> 2204, apply_to |-> None]

RECURSIVE NotChain(_, _)
NotChain(n, e) == IF n = 0 THEN e ELSE UnaryExpression("NOT", NotChain(n - 1, e))

Guards ==
    {NotChain(n, VariableReference(X)) : n \in 0..MaxNot}
      \cup { One,
             BinaryExpression("EQUALS", VariableReference(Y), One),
             BinaryExpression("AND",
                              BinaryExpression("EQUALS", VariableReference(X), One),
                              BinaryExpression("OR", VariableReference(Y),
                                               VariableReference(X))),
             FunctionCall(<<"i", "s">>, <<VariableReference(Z)>>),
             UnaryExpression("NOT", FunctionCall(<<"i", "s">>, <<VariableReference(X)>>)) }

\* Surveys that vary the graph: up to MaxTrans unguarded transitions among
\* START, two ids that may be declared and one that never is.
Nodes == {START, S1, S2, S3}

Edges == {Transition(a, b, None) : a \in Nodes, b \in Nodes}

PlainState(id) == State(id, None, None, None)

DeclaredLists ==
    { <<PlainState(S1), PlainState(S2)>>, <<PlainState(START), PlainState(S1)>> }

GraphSurveys ==
    {Survey(<<>>, sts, trs) : sts \in DeclaredLists, trs \in SeqsUpTo(Edges, MaxTrans)}

\* Surveys that vary the expressions, the declarations and the coverage: a first
\* state S1 with any guard, then up to MaxPlain states S2, S3, ...
DigitChar(i) ==
    CASE i = 1 -> "1" [] i = 2 -> "2" [] i = 3 -> "3" [] i = 4 -> "4" [] i = 5 -> "5"
      [] i = 6 -> "6" [] i = 7 -> "7" [] i = 8 -> "8" [] i = 9 -> "9"

StateId(i) == <<"S", DigitChar(i)>>

FirstStates ==
    {State(S1, g, v, ver) : g \in Guards \cup {None}, v \in {None, One},
                            ver \in {None, Version}}

FollowingStates(k) ==
    {[i \in 1..k |-> State(StateId(i + 1), None, f[i], None)] :
       f \in [1..k -> {None, One}]}

StateLists ==
    {<<>>} \cup {<<first>> \o rest : first \in FirstStates,
                                     rest \in UNION {FollowingStates(k) : k \in 0..MaxPlain}}

\* START -> S1 -> S2 -> ... through all the states, the first edge guarded by g.
Chain(states, g) ==
    [i \in 1..Len(states) |->
        Transition(IF i = 1 THEN START ELSE states[i - 1].id, states[i].id,
                   IF i = 1 THEN g ELSE None)]

TransitionLists(states) ==
    {<<>>, Chain(states, None),
     Chain(states, BinaryExpression("EQUALS", VariableReference(Y), One))}

VariableLists == {<<>>, <<X>>, <<Y>>, <<X, Y>>}

ExpressionSurveys ==
    {Survey(vs, sts[1], sts[2]) :
       vs \in VariableLists,
       sts \in UNION {{<<l, t>> : t \in TransitionLists(l)} : l \in StateLists}}

AnalyzeInputs == GraphSurveys \cup ExpressionSurveys

----------------------------------------------------------------------------
(* The analyzer as a state machine *)

InitAnalyzer ==
    /\ mode = "analyze"
    /\ pc = "start"
    /\ survey \in AnalyzeInputs
    /\ report = NoReport
    /\ text = <<>>
    /\ expr_str = <<>>
    /\ tokens = <<>>
    /\ result = Pending
    /\ rows = <<>> /\ warned = <<>> /\ call = <<>> /\ module_state = NoBindings

\* analyze_survey(survey): builds and returns the report.
AnalyzeSurvey ==
    /\ mode = "analyze" /\ pc = "start"
    /\ report' = analyze_survey(survey)
    /\ survey' = survey_after(survey)
    /\ pc' = "done"
    /\ UNCHANGED others
    /\ UNCHANGED <<mode, text, expr_str, tokens, result>>

NextAnalyzer == AnalyzeSurvey

SpecAnalyzer == InitAnalyzer /\ [][NextAnalyzer]_vars

----------------------------------------------------------------------------
(* Inputs of the CSV ingestion *)

Q1 == <<"Q", "1">>
Q2 == <<"Q", "2">>
Q9 == <<"Q", "9">>

\* Routes: empty, naming one row, naming two rows, negated, failing to parse,
\* a function call, naming START, naming a variable of no row.
RouteTexts ==
    { <<>>,
      <<"Q", "1", " ", "=", "=", " ", "1">>,
      <<"Q", "1", " ", "=", "=", " ", "1", " ", "|", " ", "Q", "2", " ", "=", "=", " ", "1">>,
      <<"!", " ", "Q", "1">>,
      <<"Q", "1", " ", "=", "=">>,
      <<"f", ".", "(", "Q", "1", ")">>,
      <<"S", "T", "A", "R", "T", " ", "=", "=", " ", "1">>,
      <<"Q", "9", " ", "=", "=", " ", "1">> }

ValidResponseTexts ==
    { <<>>,
      <<"Q", "1", " ", "=", "=", " ", "1">>,
      <<"(", "Q", "1", " ", "I", "N", "V", "A", "L", "I", "D", " ", "1", ")">>,
      <<"!", " ", "Q", "9">> }

\* Rows named Q1, Q2, ... in this order.
RowNames(k) == [i \in 1..k |-> <<"Q", DigitChar(i)>>]

\* Other lists of row names: START among them, another order, a name twice.
OtherNames == { <<START, Q1>>, <<Q2, Q1>>, <<Q1, Q1>> }

RouteRows ==
    UNION {{[i \in 1..Len(names) |-> CSVRow(names[i], routes[i], <<>>, None)] :
              routes \in [1..Len(names) -> RouteTexts]} :
             names \in {RowNames(k) : k \in 0..MaxRows} \cup OtherNames}

FieldRow(name) ==
    {CSVRow(name, route, valid, from) :
       route \in {<<>>, <<"Q", "1", " ", "=", "=">>, <<"Q", "2", " ", "=", "=", " ", "1">>},
       valid \in ValidResponseTexts, from \in {None, SomeInt(0), SomeInt(2204)}}

FieldRows ==
    {<<r>> : r \in FieldRow(Q1)} \cup {<<r1, r2>> : r1 \in FieldRow(Q1), r2 \in FieldRow(Q2)}

CsvInputs == RouteRows \cup FieldRows

----------------------------------------------------------------------------
(* The CSV ingestion as a state machine *)

InitCsv ==
    /\ mode = "csv"
    /\ pc = "start"
    /\ rows \in CsvInputs
    /\ warned = <<>>
    /\ result = Pending
    /\ survey = NoSurvey
    /\ report = NoReport
    /\ text = <<>> /\ expr_str = <<>> /\ tokens = <<>>
    /\ call = <<>> /\ module_state = NoBindings

\* parse_csv_string on the rows, the sets of line 328 iterated in any order.
ParseCsvString ==
    /\ mode = "csv" /\ pc = "start"
    /\ \E inferred \in _infer_transitions(rows) :
          \E out \in {parse_csv_string(rows, inferred)} :
              /\ result' = out
              /\ survey' = out.survey
              /\ warned' = out.warnings
              /\ pc' = IF out.kind = "Survey" THEN "parsed" ELSE "done"
    /\ UNCHANGED <<mode, rows, report, text, expr_str, tokens, call, module_state>>

\* analyze_survey on the survey parse_csv_string returned.
AnalyzeParsed ==
    /\ mode = "csv" /\ pc = "parsed"
    /\ report' = analyze_survey(survey)
    /\ survey' = survey_after(survey)
    /\ pc' = "done"
    /\ UNCHANGED <<mode, rows, warned, result, text, expr_str, tokens, call, module_state>>

NextCsv == ParseCsvString \/ AnalyzeParsed

SpecCsv == InitCsv /\ [][NextCsv]_vars

----------------------------------------------------------------------------
(* Two calls running at once *)

\* The frame of a call: the function, the position in it, its argument and
\* its local variables.
NormalizeCall(t) ==
    [fn |-> "normalize_expression_syntax", pc |-> "start", text |-> t,
     survey |-> NoSurvey, expr_str |-> <<>>, tokens |-> <<>>,
     measured |-> NoReport, result |-> Pending]

AnalyzeCall(sv) ==
    [fn |-> "analyze_survey", pc |-> "start", text |-> <<>>,
     survey |-> sv, expr_str |-> <<>>, tokens |-> <<>>,
     measured |-> NoReport, result |-> NoReport]

\* One step of normalize_expression_syntax on its frame: lines 64-76, line 80,
\* lines 81-88.
NormalizeStep(f) ==
    CASE f.pc = "start" ->
             IF IsBlank(f.text)
             THEN [f EXCEPT !.result = ReturnNone, !.pc = "done"]
             ELSE [f EXCEPT !.expr_str = NormalizeText(f.text), !.pc = "tokenize"]
      [] f.pc = "tokenize" ->
             LET t == _tokenize(f.expr_str)
             IN  IF t.ok
                 THEN [f EXCEPT !.tokens = t.tokens, !.pc = "parse"]
                 ELSE [f EXCEPT !.result = CSVParseError(f.expr_str, t.err), !.pc = "done"]
      [] f.pc = "parse" ->
             [f EXCEPT !.result = ParseTokens(f.expr_str, f.tokens), !.pc = "done"]

\* One step of analyze_survey on its frame: lines 148-310, then the warning
\* rules of lines 316-349 on the report built so far.
AnalyzeStep(f) ==
    CASE f.pc = "start" ->
             [f EXCEPT !.measured = Measure(f.survey), !.pc = "warnings"]
      [] f.pc = "warnings" ->
             [f EXCEPT !.result = [fld \in DOMAIN f.measured \cup {"warnings"} |->
                                     IF fld = "warnings" THEN Warnings(f.measured)
                                     ELSE f.measured[fld]],
                       !.pc = "done"]

FrameStep(f) ==
    IF f.fn = "analyze_survey" THEN AnalyzeStep(f) ELSE NormalizeStep(f)

\* Mutant of CallStep: the token list is kept in a module-level variable,
\* written by line 80 and read by line 81.
CallStep_sharedTokens(f, bindings) ==
    IF f.fn = "normalize_expression_syntax" /\ f.pc = "tokenize" /\ _tokenize(f.expr_str).ok
    THEN [frame |-> FrameStep(f), module_state |-> _tokenize(f.expr_str).tokens]
    ELSE IF f.fn = "normalize_expression_syntax" /\ f.pc = "parse"
    THEN [frame |-> [f EXCEPT !.result = ParseTokens(f.expr_str, bindings), !.pc = "done"],
          module_state |-> bindings]
    ELSE [frame |-> FrameStep(f), module_state |-> bindings]

\* One step of a call: it reads and writes its own frame; neither function
\* has a global statement or assigns to a module-level object, so the
\* module-level bindings are left as they are.
CallStep(f, bindings) ==
    [frame |-> FrameStep(f), module_state |-> bindings]

ConcurrentTexts ==
    { <<>>,
      <<"A", " ", "&", " ", "B">>,
      <<"A", " ", "|", " ", "B">>,
      <<"!", " ", "A", " ", "=", "=", " ", "1">>,
      <<"A", " ", "=", "=">>,
      <<"$">> }

ConcurrentSurveys ==
    { NoSurvey,
      Survey(<<>>, <<PlainState(S1), PlainState(S2)>>,
             <<Transition(START, S1, None), Transition(S1, S2, None),
               Transition(S2, S1, None)>>),
      Survey(<<X>>, <<State(S1, BinaryExpression("EQUALS", VariableReference(Y), One),
                            One, Version)>>,
             <<Transition(START, S1, VariableReference(X))>>) }

ConcurrentCalls ==
    {NormalizeCall(t) : t \in ConcurrentTexts} \cup {AnalyzeCall(sv) : sv \in ConcurrentSurveys}

InitCalls ==
    /\ mode = "calls"
    /\ pc = "running"
    /\ call \in [1..2 -> ConcurrentCalls]
    /\ module_state = NoBindings
    /\ rows = <<>> /\ warned = <<>>
    /\ text = <<>> /\ expr_str = <<>> /\ tokens = <<>>
    /\ result = Pending /\ survey = NoSurvey /\ report = NoReport

\* The scheduler lets call t take its next step.
RunCall(t) ==
    /\ mode = "calls"
    /\ call[t].pc # "done"
    /\ \E out \in {CallStep(call[t], module_state)} :
          /\ call' = [call EXCEPT ![t] = out.frame]
          /\ module_state' = out.module_state
    /\ UNCHANGED <<single, rows, warned>>

NextCalls == \E t \in 1..2 : RunCall(t)

SpecCalls == InitCalls /\ [][NextCalls]_vars

----------------------------------------------------------------------------
(* Properties of the parser *)

Returned == mode = "parse" /\ pc = "done"

Raised(kind) ==
    result.kind = "CSVParseError" /\ result.message[2][1] = kind

Count(s, ch) == Cardinality({i \in 1..Len(s) : s[i] = ch})

Logical(e) == e.tag = "BinaryExpression" /\ e.operator \in {"AND", "OR"}

\* No AND or OR node anywhere in e.
RECURSIVE NoLogical(_)
NoLogical(e) ==
    CASE e.tag = "BinaryExpression" ->
             ~Logical(e) /\ NoLogical(e.left) /\ NoLogical(e.right)
      [] e.tag = "UnaryExpression" -> NoLogical(e.operand)
      [] e.tag = "FunctionCall" ->
             \A i \in 1..Len(e.arguments) : NoLogical(e.arguments[i])
      [] OTHER -> TRUE

\* A left-associative chain of ORs over operands free of AND and OR.
RECURSIVE OrChain(_)
OrChain(e) ==
    IF Logical(e) /\ e.operator = "OR" THEN OrChain(e.left) /\ NoLogical(e.right)
    ELSE NoLogical(e)

\* A left-associative chain of ANDs each of whose operands is an OR chain.
RECURSIVE AndChain(_)
AndChain(e) ==
    IF Logical(e) /\ e.operator = "AND" THEN AndChain(e.left) /\ OrChain(e.right)
    ELSE OrChain(e)

PrecedenceText == <<"A", " ", "&", " ", "B", " ", "|", " ", "C", " ", "&", " ", "D">>

PrecedenceTree ==
    BinaryExpression("AND",
        BinaryExpression("AND", VariableReference(<<"A">>),
                         BinaryExpression("OR", VariableReference(<<"B">>),
                                          VariableReference(<<"C">>))),
        VariableReference(<<"D">>))

\* C1: for text without parentheses the returned tree is a left-associative
\* chain of ANDs whose operands are left-associative chains of ORs, so that no
\* AND lies below an OR; 'A & B | C & D' gives AND(AND(A, OR(B, C)), D).
C1_OrBindsTighterThanAnd ==
    Returned =>
        /\ text = PrecedenceText => result = ReturnExpression(PrecedenceTree)
        /\ (Count(text, "(") = 0 /\ Count(text, ")") = 0 /\ result.kind = "Expression")
              => AndChain(result.ast)

C1_Witness ==
    /\ Returned /\ text = PrecedenceText
    /\ result.kind = "Expression"
    /\ result.ast.left.right.operator = "OR"

\* C8: text whose numbers of '(' and of ')' differ is never given an
\* expression (nor None): the call raises CSVParseError.
C8_UnbalancedParenthesesRaise ==
    (Returned /\ Count(text, "(") # Count(text, ")")) => result.kind = "CSVParseError"

C8_Witness ==
    /\ Returned /\ text = <<"A", ".", "(", "A">>
    /\ Raised("Missing closing parenthesis in function call")

\* C9: when the AND-level parse of the token list stops before its end the
\* call raises 'Unexpected tokens after parsing' with the remaining tokens;
\* a returned expression is the one that parse built from all the tokens.
C9_RemainingTokensRaise ==
    (Returned /\ tokens # <<>>) =>
        LET r == _parse_and_expression(tokens, 1)
        IN  /\ (r.ok /\ r.pos <= Len(tokens)) =>
                  /\ result.kind = "CSVParseError"
                  /\ result.message[2] = <<"Unexpected tokens after parsing",
                                           SubSeq(tokens, r.pos, Len(tokens))>>
            /\ result.kind = "Expression" =>
                  r.ok /\ r.pos = Len(tokens) + 1 /\ result.ast = r.ast

C9_Witness ==
    /\ Returned /\ text = <<"(", "A", ")", ")">>
    /\ Raised("Unexpected tokens after parsing")
    /\ result.message[2][2] = <<<<")">>>>

\* Characters that no alternative of the token pattern and no rewriting accepts.
NoTokenClass == {"\"", "/", "%", ":", ",", "$"}

\* C10: text containing a character of no token class raises CSVParseError.
C10_UnknownCharacterRaises ==
    (Returned /\ \E i \in 1..Len(text) : text[i] \in NoTokenClass)
        => result.kind = "CSVParseError"

\* C11: the call ends in exactly one of three ways: it returns None, which it
\* does exactly for text made of whitespace only (the empty text included), it
\* returns an expression, or it raises CSVParseError.
C11_ThreeOutcomes ==
    Returned =>
        /\ result.kind \in {"None", "Expression", "CSVParseError"}
        /\ result.kind = "None" <=> (\A i \in 1..Len(text) : text[i] \in Spaces)
        /\ result.kind = "Expression" <=> result.ast # None

C11_Witness ==
    /\ Returned /\ text = <<" ", " ">>
    /\ result = ReturnNone

\* C12: the CSVParseError raised when tokenizing or parsing fails shows the
\* text as the caller passed it.
C12_ErrorShowsOriginalText ==
    (Returned /\ result.kind = "CSVParseError") => result.message[1] = text

\* C13: 'f.()' parses as a call without arguments, 'f.(x)' as a call with the
\* argument x, 'f.(a, b)' as a call with the arguments a and b in that order,
\* and an argument may be an OR.
C13_FunctionCallArguments ==
    Returned =>
        /\ text = <<"f", ".", "(", ")">>
              => result = ReturnExpression(FunctionCall(<<"f">>, <<>>))
        /\ text = <<"f", ".", "(", "x", ")">>
              => result = ReturnExpression(
                             FunctionCall(<<"f">>, <<VariableReference(<<"x">>)>>))
        /\ text = <<"f", ".", "(", "a", " ", "|", " ", "b", ")">>
              => result = ReturnExpression(
                             FunctionCall(<<"f">>,
                                 <<BinaryExpression("OR", VariableReference(<<"a">>),
                                                    VariableReference(<<"b">>))>>))
        /\ text = <<"f", ".", "(", "a", ",", " ", "b", ")">>
              => result = ReturnExpression(
                             FunctionCall(<<"f">>, <<VariableReference(<<"a">>),
                                                     VariableReference(<<"b">>)>>))

\* The words of a text: its maximal runs of characters other than whitespace.
RECURSIVE Words(_)
Words(s) ==
    LET t == LStrip(s)
        n == IF \E i \in 1..Len(t) : t[i] \in Spaces
             THEN (CHOOSE i \in 1..Len(t) :
                      t[i] \in Spaces /\ \A j \in 1..(i - 1) : t[j] \notin Spaces) - 1
             ELSE Len(t)
    IN  IF t = <<>> THEN <<>>
        ELSE <<SubSeq(t, 1, n)>> \o Words(SubSeq(t, n + 1, Len(t)))

CanonicalWord(w) ==
    CASE w = <<"&">> -> <<"A", "N", "D">>
      [] w = <<"|">> -> <<"O", "R">>
      [] w = <<"!">> -> <<"N", "O", "T">>
      [] w = <<"=">> -> <<"=", "=">>
      [] OTHER -> w

\* The canonical text equivalent to a text of the dialect: the same words with
\* the operators spelled AND, OR, NOT and ==, one space between them.
CanonicalText(s) ==
    LET ws == Words(s)
    IN  Join([i \in 1..Len(ws) |-> CanonicalWord(ws[i])], <<" ">>)

\* Every operator & | ! = of the text is a word of its own.
Separated(s) ==
    \A i \in 1..Len(s) :
        s[i] \in {"&", "|", "!", "="}
            => At(s, i - 1) \in Spaces \cup {""} /\ At(s, i + 1) \in Spaces \cup {""}

\* C14: text in the dialect, its operators separated by any whitespace, gives
\* the outcome (the tree, None, or a failure) of the equivalent canonical text.
C14_DialectAgreesWithCanonical ==
    (Returned /\ Separated(text)) =>
        LET canonical == normalize_expression_syntax(CanonicalText(text))
        IN  result.kind = canonical.kind /\ result.ast = canonical.ast

C14_Witness ==
    /\ Returned /\ text = <<"A", "\n", "=", "\n", "1">>
    /\ CanonicalText(text) = <<"A", " ", "=", "=", " ", "1">>
    /\ result = ReturnExpression(
                    BinaryExpression("EQUALS", VariableReference(<<"A">>), Literal(<<1, 0>>)))

\* In e, no NOT has a binary expression as operand and no comparison has a
\* binary expression on either side.
RECURSIVE UnaryOverPrimary(_)
UnaryOverPrimary(e) ==
    CASE e.tag = "UnaryExpression" ->
             e.operand.tag # "BinaryExpression" /\ UnaryOverPrimary(e.operand)
      [] e.tag = "BinaryExpression" ->
             /\ ~Logical(e) => /\ e.left.tag # "BinaryExpression"
                               /\ e.right.tag # "BinaryExpression"
             /\ UnaryOverPrimary(e.left) /\ UnaryOverPrimary(e.right)
      [] OTHER -> TRUE

NotComparison ==
    UnaryExpression("NOT",
        BinaryExpression("EQUALS", VariableReference(<<"A">>), Literal(<<1, 0>>)))

ComparisonOfNot ==
    BinaryExpression("EQUALS", UnaryExpression("NOT", VariableReference(<<"A">>)),
                     Literal(<<1, 0>>))

\* C26: 'NOT A == 1' is EQUALS(NOT(A), 1) and 'NOT (A == 1)' is
\* NOT(EQUALS(A, 1)); in text without parentheses NOT is applied to a single
\* name or number and both sides of a comparison are names, numbers or NOTs.
C26_NotBindsToPrimary ==
    Returned =>
        /\ text = <<"N", "O", "T", " ", "A", " ", "=", "=", " ", "1">>
              => result = ReturnExpression(ComparisonOfNot)
        /\ text = <<"N", "O", "T", " ", "(", "A", " ", "=", "=", " ", "1", ")">>
              => result = ReturnExpression(NotComparison)
        /\ (Count(text, "(") = 0 /\ result.kind = "Expression")
              => UnaryOverPrimary(result.ast)

C26_Witness ==
    /\ Returned /\ text = <<"!", " ", "A", " ", "=", " ", "1">>
    /\ result = ReturnExpression(ComparisonOfNot)

----------------------------------------------------------------------------
(* Properties of the analyzer *)

Analyzed == mode = "analyze" /\ pc = "done"

EdgeSet(sv) ==
    {<<sv.transitions[i].from_state, sv.transitions[i].to_state>> :
       i \in 1..Len(sv.transitions)}

Successors(sv, S) == {e[2] : e \in {d \in EdgeSet(sv) : d[1] \in S}}

\* The least set that contains S and is closed under the transitions.
RECURSIVE ForwardClosure(_, _)
ForwardClosure(sv, S) ==
    IF Successors(sv, S) \subseteq S THEN S
    ELSE ForwardClosure(sv, S \cup Successors(sv, S))

DeclaredIds(sv) == {sv.states[i].id : i \in 1..Len(sv.states)}

\* C2: unreachable_states is the set of declared ids outside the forward
\* closure of {START}, the paths running through any ids, declared or not.
C2_UnreachableStates ==
    Analyzed =>
        report.unreachable_states = DeclaredIds(survey) \ ForwardClosure(survey, {START})

C2_Witness ==
    /\ Analyzed
    /\ survey.transitions = <<Transition(START, S3, None), Transition(START, S2, None),
                              Transition(S3, S1, None)>>
    /\ DeclaredIds(survey) = {S1, S2}
    /\ report.unreachable_states = {}

\* Some node lies on a directed cycle: it is reached again from its successors.
HasDirectedCycle(sv) ==
    \E n \in {e[1] : e \in EdgeSet(sv)} :
        n \in ForwardClosure(sv, Successors(sv, {n}))

\* C3: has_cycles is true exactly when the transitions contain a directed
\* cycle, reachable from START or not, whatever the order of the transitions.
C3_HasCyclesIffCycle ==
    Analyzed => (report.has_cycles <=> HasDirectedCycle(survey))

C3_Witness ==
    /\ Analyzed
    /\ survey.transitions = <<Transition(START, S1, None), Transition(S2, S3, None),
                              Transition(S3, S2, None)>>
    /\ report.has_cycles

\* C4: a reported cycle_example has at least two ids, ends where it starts
\* and follows a transition at every step; without a cycle it is None.
C4_CycleExampleIsClosedWalk ==
    Analyzed =>
        IF report.has_cycles
        THEN LET c == report.cycle_example
             IN  /\ Len(c) >= 2
                 /\ c[1] = c[Len(c)]
                 /\ \A i \in 1..(Len(c) - 1) : <<c[i], c[i + 1]>> \in EdgeSet(survey)
        ELSE report.cycle_example = None

C4_Witness ==
    /\ Analyzed
    /\ survey.transitions = <<Transition(START, S1, None), Transition(S1, S2, None),
                              Transition(S2, S1, None)>>
    /\ report.cycle_example = <<S1, S2, S1>>

\* Every name a VariableReference carries anywhere in the tree.
RECURSIVE NamesIn(_)
NamesIn(e) ==
    CASE e.tag = "VariableReference" -> {e.name}
      [] e.tag = "BinaryExpression" -> NamesIn(e.left) \cup NamesIn(e.right)
      [] e.tag = "UnaryExpression" -> NamesIn(e.operand)
      [] e.tag = "FunctionCall" ->
             UNION {NamesIn(e.arguments[i]) : i \in 1..Len(e.arguments)}
      [] OTHER -> {}

ReferencedNames(sv) ==
    UNION ({NamesIn(sv.states[i].entry_guard) \cup NamesIn(sv.states[i].validation) :
              i \in 1..Len(sv.states)}
           \cup {NamesIn(sv.transitions[i].guard) : i \in 1..Len(sv.transitions)})

\* C5: undefined_variables is the referenced names minus the declared ones and
\* unused_variables the declared names minus the referenced ones.
C5_UndefinedAndUnusedVariables ==
    Analyzed =>
        /\ report.undefined_variables = ReferencedNames(survey) \ Range(survey.variables)
        /\ report.unused_variables = Range(survey.variables) \ ReferencedNames(survey)

HasWarning(wording) == \E i \in 1..Len(report.warnings) : report.warnings[i][1] = wording

\* Coverage of at least 50, depth of at most 5, and none of the four issues reported.
CleanReport ==
    /\ report.validation_coverage_percent[1] >= 50 * report.validation_coverage_percent[2]
    /\ report.max_expression_depth <= 5
    /\ report.undefined_variables = {}
    /\ report.unused_variables = {}
    /\ report.unreachable_states = {}
    /\ ~report.has_cycles

\* C6 as stated: a clean report carries no warning.
C6_CleanSurveyHasNoWarnings ==
    (Analyzed /\ CleanReport) => report.warnings = <<>>

\* C6 as amended: a clean report of a survey in which at least one state
\* carries version metadata has no warning.
C6_CleanVersionedSurveyHasNoWarnings ==
    (Analyzed /\ CleanReport /\ \E i \in 1..Len(survey.states) : survey.states[i].version # None)
        => report.warnings = <<>>

C6_Witness ==
    /\ Analyzed /\ CleanReport
    /\ \E i \in 1..Len(survey.states) : survey.states[i].version # None
    /\ report.validation_coverage_percent = <<50, 1>>
    /\ report.max_expression_depth = 5
    /\ report.warnings = <<>>

ValidatedStates(sv) == {i \in 1..Len(sv.states) : sv.states[i].validation # None}

\* C7: the low-coverage warning is present exactly when fewer than half of the
\* states have a validation or there is no state, and the high-complexity
\* warning exactly when max_expression_depth exceeds 5.
C7_CoverageAndComplexityWarnings ==
    Analyzed =>
        /\ HasWarning("Low validation coverage") <=>
              \/ 2 * Cardinality(ValidatedStates(survey)) < Len(survey.states)
              \/ Len(survey.states) = 0
        /\ HasWarning("High expression complexity") <=> report.max_expression_depth > 5

C7_Witness ==
    /\ Analyzed
    /\ report.max_expression_depth = 6
    /\ HasWarning("High expression complexity")
    /\ 2 * Cardinality(ValidatedStates(survey)) = Len(survey.states)
    /\ ~HasWarning("Low validation coverage")

StatesWithoutOutgoing(sv) ==
    SelectSeq([i \in 1..Len(sv.states) |-> sv.states[i].id],
              LAMBDA id : \A i \in 1..Len(sv.transitions) :
                             sv.transitions[i].from_state # id)

\* C16 as stated: exit_points lists the declared states no transition leaves,
\* in the order of survey.states, and never holds START or an undeclared id.
C16_ExitPointsNeverStart ==
    Analyzed =>
        /\ report.exit_points = StatesWithoutOutgoing(survey)
        /\ Range(report.exit_points) \subseteq DeclaredIds(survey)
        /\ START \notin Range(report.exit_points)

\* C16 as amended: exit_points lists the declared states no transition leaves,
\* in the order of survey.states, and never holds an undeclared id; START is
\* listed exactly when a state of that id is declared and no transition leaves it.
C16_ExitPointsAreDeclaredStatesWithoutOutgoing ==
    Analyzed =>
        /\ report.exit_points = StatesWithoutOutgoing(survey)
        /\ Range(report.exit_points) \subseteq DeclaredIds(survey)
        /\ START \in Range(report.exit_points)
              <=> /\ START \in DeclaredIds(survey)
                  /\ \A i \in 1..Len(survey.transitions) :
                         survey.transitions[i].from_state # START

C16_Witness ==
    /\ Analyzed
    /\ survey.transitions = <<Transition(S1, S2, None), Transition(S1, S3, None)>>
    /\ DeclaredIds(survey) = {START, S1}
    /\ report.exit_points = <<START>>

\* The number of guard and validation expressions of the survey naming v.
Mentions(sv, v) ==
    Cardinality({i \in 1..Len(sv.states) : v \in NamesIn(sv.states[i].entry_guard)})
      + Cardinality({i \in 1..Len(sv.states) : v \in NamesIn(sv.states[i].validation)})
      + Cardinality({i \in 1..Len(sv.transitions) : v \in NamesIn(sv.transitions[i].guard)})

\* C17: variable_usage maps every name referenced by some entry_guard,
\* validation or transition guard to the number of those expressions naming it.
C17_VariableUsageCountsExpressions ==
    Analyzed =>
        report.variable_usage = [v \in ReferencedNames(survey) |-> Mentions(survey, v)]

\* The number of nodes of an expression tree, a call's children being its arguments.
RECURSIVE NodeCount(_)
NodeCount(e) ==
    CASE e.tag = "BinaryExpression" -> 1 + NodeCount(e.left) + NodeCount(e.right)
      [] e.tag = "UnaryExpression" -> 1 + NodeCount(e.operand)
      [] e.tag = "FunctionCall" ->
             1 + Sum([i \in 1..Len(e.arguments) |-> NodeCount(e.arguments[i])])
      [] OTHER -> 1

\* Depth 0 for a leaf, one more than the deepest child for a unary or binary node.
DepthRule(e) ==
    CASE e.tag \in {"VariableReference", "Literal"} -> _analyze_expression(e).depth = 0
      [] e.tag = "UnaryExpression" ->
             _analyze_expression(e).depth = 1 + _analyze_expression(e.operand).depth
      [] e.tag = "BinaryExpression" ->
             _analyze_expression(e).depth =
                 1 + Max(_analyze_expression(e.left).depth,
                         _analyze_expression(e.right).depth)
      [] OTHER -> TRUE

\* C18: for every guard and validation of the survey the walk counts every
\* node, collects every referenced name and follows the depth rule, a call's
\* arguments included.
C18_WalkCoversEveryNode ==
    Analyzed =>
        \A i \in 1..Len(AllExpressions(survey)) :
            LET e == AllExpressions(survey)[i]
                m == _analyze_expression(e)
            IN  /\ m.node_count = NodeCount(e)
                /\ m.variable_references = NamesIn(e)
                /\ DepthRule(e)

\* The number of transitions leaving each declared state that has one, in the
\* order of survey.states.
DeclaredOutDegrees(sv) ==
    LET ids == SelectSeq([i \in 1..Len(sv.states) |-> sv.states[i].id],
                         LAMBDA id : \E i \in 1..Len(sv.transitions) :
                                        sv.transitions[i].from_state = id)
    IN  [k \in 1..Len(ids) |->
            Cardinality({i \in 1..Len(sv.transitions) :
                           sv.transitions[i].from_state = ids[k]})]

\* C19: max_transitions_per_state and avg_transitions_per_state are the largest
\* and the mean number of outgoing transitions over the declared states that
\* have one, the START sentinel left out; both are 0 when there is none.
C19_TransitionMetricsOverDeclaredStates ==
    Analyzed =>
        LET degrees == DeclaredOutDegrees(survey)
        IN  IF degrees = <<>>
            THEN /\ report.max_transitions_per_state = 0
                 /\ report.avg_transitions_per_state = <<0, 1>>
            ELSE /\ report.max_transitions_per_state = MaxOf(degrees)
                 /\ report.avg_transitions_per_state = Quotient(Sum(degrees), Len(degrees))

\* Every count and metric of the report is 0, there is no cycle, and every
\* collection other than the warnings is empty.
ZeroReport ==
    /\ report.total_states = 0 /\ report.total_transitions = 0
    /\ report.total_variables = 0 /\ report.total_blocks = 0
    /\ report.max_expression_depth = 0 /\ report.avg_expression_depth = <<0, 1>>
    /\ report.total_expression_nodes = 0
    /\ report.states_with_validation = 0 /\ report.states_with_entry_guard = 0
    /\ report.states_with_version = 0 /\ report.validation_coverage_percent = <<0, 1>>
    /\ report.max_transitions_per_state = 0 /\ report.avg_transitions_per_state = <<0, 1>>
    /\ ~report.has_cycles /\ report.cycle_example = None
    /\ DOMAIN report.variable_usage = {}
    /\ report.undefined_variables = {} /\ report.unused_variables = {}
    /\ report.entry_points = <<>> /\ report.exit_points = <<>>
    /\ report.unreachable_states = {}

----------------------------------------------------------------------------
(* Operator keywords and identifiers *)

Keywords == {<<"A", "N", "D">>, <<"O", "R">>, <<"N", "O", "T">>}

KeywordNames(e) == {n \in NamesIn(e) : Upper(n) \in Keywords}

\* C27: text in which an operator keyword stands where an operand is expected
\* ('A & |', '! &', 'A == AND') raises CSVParseError, and no returned
\* expression holds a VariableReference named AND, OR or NOT in any letter case.
C27_KeywordIsNeverAnOperand ==
    Returned =>
        /\ text \in { <<"A", " ", "&", " ", "|">>, <<"!", " ", "&">>,
                      <<"A", " ", "=", "=", " ", "A", "N", "D">> }
              => result.kind = "CSVParseError"
        /\ result.kind = "Expression" => KeywordNames(result.ast) = {}

IsIdentifier(s) ==
    /\ s # <<>> /\ IsIdentStart(s[1])
    /\ \A i \in 1..Len(s) : IsIdentChar(s[i])

\* C28: text that is one identifier other than the words AND, OR and NOT
\* themselves (ORiska, Notes, android) is tokenized as that one identifier and
\* parses to the VariableReference carrying the full name.
C28_KeywordPrefixIsIdentifier ==
    (Returned /\ IsIdentifier(text) /\ Upper(text) \notin Keywords) =>
        /\ tokens = <<text>>
        /\ result = ReturnExpression(VariableReference(text))

----------------------------------------------------------------------------
(* The shape of the cycle example *)

\* C30: in a reported cycle_example the only id that occurs twice is the first
\* one, which occurs again as the last and nowhere else.
C30_CycleExampleIsSimple ==
    (Analyzed /\ report.has_cycles) =>
        LET c == report.cycle_example
        IN  /\ c[1] = c[Len(c)]
            /\ \A i \in 1..Len(c) : \A j \in (i + 1)..Len(c) :
                   c[i] = c[j] => (i = 1 /\ j = Len(c))

C30_Witness ==
    /\ Analyzed
    /\ survey.transitions = <<Transition(S1, S2, None), Transition(S2, S3, None),
                              Transition(S3, S2, None)>>
    /\ report.cycle_example = <<S2, S3, S2>>

----------------------------------------------------------------------------
(* The survey argument *)

----------------------------------------------------------------------------
(* Properties of the CSV ingestion *)

\* parse_csv_string has returned or raised.
CsvParsed == mode = "csv" /\ pc \in {"parsed", "done"}

\* analyze_survey has run on the survey parse_csv_string returned.
CsvAnalyzed == mode = "csv" /\ pc = "done" /\ result.kind = "Survey"

RowVariables == {rows[i].variable : i \in 1..Len(rows)}

DuplicateRows == Cardinality(RowVariables) # Len(rows)

FailsToParse(field) ==
    field # <<>> /\ normalize_expression_syntax(field).kind = "CSVParseError"

ParsesTo(field) == normalize_expression_syntax(field).ast

\* What the claim expects in a State for a text field of its row.
ExpectedExpression(field) ==
    IF field = <<>> \/ FailsToParse(field) THEN None ELSE ParsesTo(field)

\* The wording and variable of the warnings the claim expects for one row.
ExpectedWarnings(row) ==
    (IF FailsToParse(row.route) THEN <<<<"Invalid route for", row.variable>>>> ELSE <<>>)
      \o (IF FailsToParse(row.valid_response)
          THEN <<<<"Invalid validation for", row.variable>>>> ELSE <<>>)

\* C23: unless two rows share a variable name, parse_csv_string returns a
\* survey with one State per row in row order, each field that fails to parse
\* left None with one UserWarning issued for it, and every other field parsed.
C23_OneStatePerRow ==
    (CsvParsed /\ ~DuplicateRows) =>
        /\ result.kind = "Survey"
        /\ Len(survey.states) = Len(rows)
        /\ \A i \in 1..Len(rows) :
              /\ survey.states[i].id = rows[i].variable
              /\ survey.states[i].entry_guard = ExpectedExpression(rows[i].route)
              /\ survey.states[i].validation = ExpectedExpression(rows[i].valid_response)
        /\ \A k \in 1..Len(warned) : warned[k].category = "UserWarning"
        /\ [k \in 1..Len(warned) |-> <<warned[k].message[1], warned[k].message[2]>>]
              = Concat([i \in 1..Len(rows) |-> ExpectedWarnings(rows[i])])

C23_Witness ==
    /\ CsvParsed /\ result.kind = "Survey"
    /\ Len(rows) = 2 /\ Len(survey.states) = 2
    /\ FailsToParse(rows[1].valid_response) /\ ~FailsToParse(rows[1].route)
    /\ rows[1].route # <<>> /\ rows[2].valid_response # <<>>
    /\ survey.states[1].validation = None /\ survey.states[1].entry_guard # None
    /\ survey.states[2].validation # None
    /\ Len(warned) = 1

HasTransition(from, to, guard) ==
    \E k \in 1..Len(survey.transitions) :
        survey.transitions[k] = Transition(from, to, guard)

\* C24: for every row R whose route parses and every name V in that guard that
\* is the variable of another row, the survey has the transition V -> R with
\* R's guard; a row with an empty route is the to_state of no transition.
C24_InferredTransitions ==
    (CsvParsed /\ result.kind = "Survey") =>
        \A i \in 1..Len(rows) :
            /\ (rows[i].route # <<>> /\ ~FailsToParse(rows[i].route)) =>
                  \A v \in NamesIn(ParsesTo(rows[i].route)) \cap (RowVariables \ {rows[i].variable}) :
                      HasTransition(v, rows[i].variable, ParsesTo(rows[i].route))
            /\ rows[i].route = <<>> =>
                  \A k \in 1..Len(survey.transitions) :
                      survey.transitions[k].to_state # rows[i].variable

ParsedNames(field) ==
    IF field = <<>> \/ FailsToParse(field) THEN {} ELSE NamesIn(ParsesTo(field))

\* C25: the variables of the survey are the row variables together with the
\* names referenced in the routes and valid_responses that parse, each once.
C25_VariablesDeclared ==
    (CsvParsed /\ result.kind = "Survey") =>
        /\ Range(survey.variables)
              = RowVariables \cup UNION {ParsedNames(rows[i].route)
                                           \cup ParsedNames(rows[i].valid_response) :
                                         i \in 1..Len(rows)}
        /\ Cardinality(Range(survey.variables)) = Len(survey.variables)

\* C29: when no row is named START, every transition runs between the
\* variables of two different rows, none leaves START, and analyze_survey finds
\* no entry point and every state unreachable.
C29_NoStartNoEntry ==
    (START \notin RowVariables) =>
        /\ (CsvParsed /\ result.kind = "Survey") =>
              \A k \in 1..Len(survey.transitions) :
                  /\ survey.transitions[k].from_state # START
                  /\ survey.transitions[k].from_state \in RowVariables
                  /\ survey.transitions[k].to_state \in RowVariables
                  /\ survey.transitions[k].from_state # survey.transitions[k].to_state
        /\ CsvAnalyzed =>
              /\ report.entry_points = <<>>
              /\ report.unreachable_states = RowVariables

C29_Witness ==
    /\ CsvAnalyzed
    /\ START \notin RowVariables
    /\ \E i \in 1..Len(rows) : START \in ParsedNames(rows[i].route)
    /\ Len(survey.transitions) >= 2
    /\ report.entry_points = <<>>
    /\ Cardinality(report.unreachable_states) = 3

----------------------------------------------------------------------------
(* Properties of two calls running at once *)

\* What the call of a frame returns when it runs alone.
Alone(f) ==
    IF f.fn = "analyze_survey" THEN analyze_survey(f.survey)
    ELSE normalize_expression_syntax(f.text)

\* Every finished call holds the result it gives when run alone.
ResultsAsAlone ==
    \A t \in 1..2 : call[t].pc = "done" => call[t].result = Alone(call[t])

====
